---- MODULE Spec2Model ----
(***************************************************************************)
(* A state-machine model of async_chain (src/include/async.hpp): the       *)
(* Result type, the four step holders (Holder, CatcherHolder, RetryHolder, *)
(* RetryDelayedHolder), the AsyncChain builder and the call_steps fold     *)
(* driven by finally.                                                      *)
(*                                                                         *)
(* A step is caller code.  The model invokes it and later lets it call the *)
(* continuation it was given, with an Outcome of its choosing, either      *)
(* before it returns (synchronously) or after the invoking stack has       *)
(* unwound (asynchronously).                                               *)
(***************************************************************************)
EXTENDS Integers, Sequences, FiniteSets, TLC

\* ----------------------------------------------------------------- bounds
\* Longest chain the builder is allowed to produce.
MaxLen == 3
\* Largest MaxRetries template argument instantiated (besides 0).
MaxRetriesBound == 2
\* Most Result objects the program builds itself.
MaxResults == 3
\* Most executions of one named chain.
MaxRuns == 2

Delays == {1000}
RetryBounds == {0, MaxRetriesBound}

\* ----------------------------------------------------------------- Result
\* std::optional: <<>> is std::nullopt, <<x>> holds x.
has_value(opt) == opt # <<>>

\* T{} of finally's seed Result<T, E>::Ok(T{}).
DefaultT == 0

Ok(val) == [error |-> <<>>, value |-> <<val>>]

Err(err) == [error |-> <<err>>, value |-> <<>>]

is_ok(result) == has_value(result.value)

is_err(result) == has_value(result.error)

\* Result<void, E>: the error alone.
Ok_void == [error |-> <<>>]

Err_void(err) == [error |-> <<err>>]

is_ok_void(result) == ~has_value(result.error)

is_err_void(result) == has_value(result.error)

\* Result is an aggregate with public members: besides the factories,
\* Result<T, E>{error, value} builds one from any two optionals, and
\* Result<T, E>{} from two empty ones.
Result(error, value) == [error |-> error, value |-> value]

\* The values of T and E, and the optionals over them.
Values == {0, 1}

Optionals == {<<>>} \cup {<<v>> : v \in Values}

\* The payload a step puts in the Outcome of one invocation: caller data the
\* engine never reads.  It names the invocation (holder index, attempt), so
\* that the origin of every Outcome seen later is known.
Payload(i, a) == 10 * (i + 1) + (a + 1)

\* The Outcomes a step builds with the two factories, Result::Ok and
\* Result::Err.
StepOutcomes(i, a) == {Ok(Payload(i, a)), Err(Payload(i, a))}

\* ------------------------------------------------------------------ state
VARIABLES
  harness,           \* the program around the chains:
                     \*   "single" | "twin" | "tags" | "pair" | "nested" |
                     \*   "named" | "results"
  results,           \* the Result objects the program has built itself
  step_objects,      \* the step objects the program owns
  chains,            \* the chain objects of the program (ids)
  global_scheduler,  \* "empty" | "registered"
  tasks,             \* actions a deferring scheduler holds
  steps_,            \* chain -> sequence of holders (the tuple steps_)
  phase,             \* chain -> "building" | "running" | "done" | "crashed" | "threw"
  Index,             \* chain -> the Index of call_steps<Index> being executed
  awaiting,          \* chain -> a step holds a continuation it has not called yet
  attempt,           \* chain -> the attempt captured by that continuation
  stack,             \* chain -> "none" | "finally" | "resumed" | "unwound"
  this_valid,        \* chain -> the current holder's storage is still alive
  log                \* chain -> what has happened, in order

vars == << harness, results, step_objects, chains, global_scheduler, tasks, steps_, phase, Index, awaiting,
           attempt, stack, this_valid, log >>

\* ----------------------------------------------------------------- events
NoAttempt == 0 - 1

CallEv(i, a, input) ==
  [ev |-> "call", idx |-> i, attempt |-> a, res |-> input, delay |-> 0]

EmitEv(i, a, r) ==
  [ev |-> "emit", idx |-> i, attempt |-> a, res |-> <<r>>, delay |-> 0]

FwdEv(i, r) ==
  [ev |-> "fwd", idx |-> i, attempt |-> NoAttempt, res |-> <<r>>, delay |-> 0]

SchedEv(i, a, d) ==
  [ev |-> "sched", idx |-> i, attempt |-> a, res |-> <<>>, delay |-> d]

FinalEv(i, r) ==
  [ev |-> "final", idx |-> i, attempt |-> NoAttempt, res |-> <<r>>, delay |-> 0]

\* ---------------------------------------------------------------- holders
Holder(step) ==
  [kind |-> "Holder", ptr |-> step, MaxRetries |-> 0, DelayMs |-> 0]

CatcherHolder(step) ==
  [kind |-> "CatcherHolder", ptr |-> step, MaxRetries |-> 0, DelayMs |-> 0]

RetryHolder(max, step) ==
  [kind |-> "RetryHolder", ptr |-> step, MaxRetries |-> max, DelayMs |-> 0]

RetryDelayedHolder(max, delay, step) ==
  [kind |-> "RetryDelayedHolder", ptr |-> step, MaxRetries |-> max,
   DelayMs |-> delay]

\* Faulty variant: a Holder that decides on the payload of the success it
\* is called with.
Holder_call_by_payload(result) ==
  IF is_err(result) \/ result.value[1] % 2 = 1 THEN "continue" ELSE "step"

\* Faulty variant: a Holder without the error short-circuit.
Holder_call_unchecked(result) == "step"

\* Faulty variant: a Holder that runs its step on an error and skips it on a
\* success.
Holder_call_inverted(result) == IF is_ok(result) THEN "continue" ELSE "step"

\* What each holder's call does with the incoming result: "step" invokes the
\* step, "continue" calls continue_chain with the result.
Holder_call(result) ==
  IF is_err(result) THEN "continue" ELSE "step"

\* Faulty variant: a CatcherHolder that runs its step on a success.
CatcherHolder_call_inverted(result) ==
  IF is_ok(result) THEN "step" ELSE "continue"

CatcherHolder_call(result) ==
  IF is_err(result) THEN "step" ELSE "continue"

\* Faulty variant: a RetryHolder that runs its step on an error only.
RetryHolder_call_inverted(result) ==
  IF is_ok(result) THEN "continue" ELSE "step"

\* Faulty variant: a RetryHolder without the error short-circuit.
RetryHolder_call_unchecked(result) == "step"

RetryHolder_call(result) ==
  IF is_err(result) THEN "continue" ELSE "step"

\* Faulty variant: a RetryDelayedHolder without the error short-circuit.
RetryDelayedHolder_call_unchecked(result) == "step"

RetryDelayedHolder_call(result) ==
  IF is_err(result) THEN "continue" ELSE "step"

call(holder, result) ==
  CASE holder.kind = "Holder" -> Holder_call(result)
    [] holder.kind = "CatcherHolder" -> CatcherHolder_call(result)
    [] holder.kind = "RetryHolder" -> RetryHolder_call(result)
    [] holder.kind = "RetryDelayedHolder" -> RetryDelayedHolder_call(result)

\* Faulty variant: the step is handed a fresh success, not the result the
\* holder was called with.
StepInput_fresh(holder, result) ==
  IF holder.kind \in {"Holder", "CatcherHolder"} THEN << Ok(DefaultT) >>
  ELSE << >>

\* The argument the step is invoked with besides the continuation: the
\* incoming result (Holder, CatcherHolder) or nothing but the attempt.
StepInput(holder, result) ==
  IF holder.kind \in {"Holder", "CatcherHolder"} THEN <<result>> ELSE <<>>

\* Faulty variant: a retrying holder that starts counting at 1.
FirstAttempt_late(holder) ==
  IF holder.kind \in {"RetryHolder", "RetryDelayedHolder"} THEN 1 ELSE NoAttempt

\* call hands run_step the attempt 0.
FirstAttempt(holder) ==
  IF holder.kind \in {"RetryHolder", "RetryDelayedHolder"} THEN 0 ELSE NoAttempt

\* Faulty variant: one retry too many.
RetryHolder_decide_late(result, att, MaxRetries) ==
  IF is_ok(result) \/ att > MaxRetries THEN "continue" ELSE "run_step"

\* The test of the continuation RetryHolder::run_step hands to the step.
RetryHolder_decide(result, att, MaxRetries) ==
  IF is_ok(result) \/ att >= MaxRetries THEN "continue" ELSE "run_step"

\* Faulty variant: a RetryDelayedHolder that never retries.
RetryDelayedHolder_decide_giveup(result, att, MaxRetries) == "continue"

\* Faulty variant: one retry too many.
RetryDelayedHolder_decide_late(result, att, MaxRetries) ==
  IF is_ok(result) \/ att > MaxRetries THEN "continue" ELSE "schedule"

\* The test of the continuation RetryDelayedHolder::run_step hands to the step.
RetryDelayedHolder_decide(result, att, MaxRetries) ==
  IF is_ok(result) \/ att >= MaxRetries THEN "continue" ELSE "schedule"

\* Faulty variant: the scheduler is handed the retry bound as its delay.
scheduler_delay_bound(holder) == holder.MaxRetries

\* The delay RetryDelayedHolder::run_step passes to global_scheduler.
scheduler_delay(holder) == holder.DelayMs

\* ------------------------------------------------------------- call_steps
\* The part of a chain's state that call_steps and the holders change.
Local(c) ==
  [Index |-> Index[c], awaiting |-> awaiting[c], attempt |-> attempt[c],
   phase |-> phase[c], this_valid |-> this_valid[c], log |-> log[c]]

RECURSIVE call_steps(_, _, _, _)

\* Faulty variant: the continuation skips the next holder.
continue_chain_skip(steps, i, next_result, lg) ==
  call_steps(steps, i + 2, next_result, Append(lg, FwdEv(i, next_result)))

\* The continuation call_steps<i> hands to holder i: called with
\* next_result it runs call_steps<i + 1>.
continue_chain(steps, i, next_result, lg) ==
  call_steps(steps, i + 1, next_result, Append(lg, FwdEv(i, next_result)))

\* call_steps<i>(steps, final_callback, result): past the last holder the
\* final callback gets the result; otherwise holder i is called with
\* continue_chain.  The holder lives in the tuple the caller still owns, so
\* it is valid when it is entered.
call_steps(steps, i, result, lg) ==
  IF i < Len(steps)
  THEN LET holder == steps[i + 1] IN
       IF call(holder, result) = "step"
       THEN [Index |-> i, awaiting |-> TRUE, attempt |-> FirstAttempt(holder),
             phase |-> "running", this_valid |-> TRUE,
             log |-> Append(lg, CallEv(i, FirstAttempt(holder),
                                       StepInput(holder, result)))]
       ELSE continue_chain(steps, i, result, lg)
  ELSE [Index |-> i, awaiting |-> FALSE, attempt |-> NoAttempt,
        phase |-> "done", this_valid |-> TRUE,
        log |-> Append(lg, FinalEv(i, result))]

\* Faulty variant: the holder is gone even while the call that entered it is
\* still on the stack.
run_step_dangling(c, att, lg, intact) ==
  IF intact
  THEN [Index |-> Index[c], awaiting |-> TRUE, attempt |-> att,
        phase |-> "running", this_valid |-> this_valid[c],
        log |-> Append(lg, CallEv(Index[c], att, << >>))]
  ELSE [Index |-> Index[c], awaiting |-> FALSE, attempt |-> att,
        phase |-> "crashed", this_valid |-> FALSE, log |-> lg]

\* run_step(continue_chain, att) reads ptr through this.  When the holder's
\* storage is gone the read is undefined: the build either still finds the
\* old bytes or crashes.
run_step(c, att, lg, intact) ==
  IF this_valid[c] \/ intact
  THEN [Index |-> Index[c], awaiting |-> TRUE, attempt |-> att,
        phase |-> "running", this_valid |-> this_valid[c],
        log |-> Append(lg, CallEv(Index[c], att, <<>>))]
  ELSE [Index |-> Index[c], awaiting |-> FALSE, attempt |-> att,
        phase |-> "crashed", this_valid |-> FALSE, log |-> lg]

Set(c, st) ==
  /\ Index' = [Index EXCEPT ![c] = st.Index]
  /\ awaiting' = [awaiting EXCEPT ![c] = st.awaiting]
  /\ attempt' = [attempt EXCEPT ![c] = st.attempt]
  /\ phase' = [phase EXCEPT ![c] = st.phase]
  /\ this_valid' = [this_valid EXCEPT ![c] = st.this_valid]
  /\ log' = [log EXCEPT ![c] = st.log]

\* The stack a continuation or task runs on: the one it was handed out on
\* when that is still there, a new one otherwise.
Resume(c) ==
  stack' = [stack EXCEPT ![c] = IF @ = "unwound" THEN "resumed" ELSE @]

\* ---------------------------------------------------------------- builder
\* The twin program builds its second chain alongside the first, with
\* thenWithRetry<M> wherever the first uses thenWithRetryDelayed<M, D>.
Twin(holder) ==
  IF holder.kind = "RetryDelayedHolder"
  THEN RetryHolder(holder.MaxRetries, holder.ptr)
  ELSE holder

\* The nested program: chain 1 has a Holder whose step ("nest") builds
\* chain 3, calls finally on it and, from chain 3's final callback, calls
\* its own continuation with the result; chain 2 has the holders of chain 3
\* in the place of that Holder.
IsNest(holder) == holder.ptr = "nest"

HasNest(steps) == \E n \in 1 .. Len(steps) : IsNest(steps[n])

\* The index of the nesting Holder.
NestPos(steps) == (CHOOSE n \in 1 .. Len(steps) : IsNest(steps[n])) - 1

\* The program's appends, in the order it makes them.  (The nested program
\* has at most one retrying holder, with the largest retry bound; each chain
\* of the pair program is a RetryDelayedHolder, or one and a Holder.)
MayAppend(c, holder) ==
  CASE harness \in {"twin", "tags"} ->
         c = 1 /\ \A k \in chains : phase[k] = "building"
    [] harness = "nested" ->
         /\ \A k \in chains : phase[k] = "building"
         /\ IF IsNest(holder)
            THEN c = 1 /\ holder.kind = "Holder" /\ ~HasNest(steps_[1])
            ELSE /\ Len(steps_[2]) < MaxLen
                 /\ holder.kind \in {"RetryHolder", "RetryDelayedHolder"} =>
                      /\ holder.MaxRetries = MaxRetriesBound
                      /\ \A n \in 1 .. Len(steps_[2]) :
                           steps_[2][n].kind \in {"Holder", "CatcherHolder"}
                 /\ \/ c = 1
                    \/ /\ c = 3
                       /\ steps_[1] # << >>
                       /\ IsNest(steps_[1][Len(steps_[1])])
    [] harness = "pair" ->
         IF steps_[c] = << >>
         THEN /\ holder.kind = "RetryDelayedHolder"
              /\ holder.MaxRetries = MaxRetriesBound
         ELSE holder.kind = "Holder" /\ Len(steps_[c]) = 1
    [] OTHER -> TRUE

\* What chain k gets when the program appends holder to chain c.
Mirrored(c, k, holder) ==
  CASE k = c -> << holder >>
    [] k # c /\ harness = "twin" -> << Twin(holder) >>
    [] k # c /\ harness = "tags" -> << holder >>
    [] k # c /\ harness = "nested" /\ k = 2 /\ ~IsNest(holder) -> << holder >>
    [] OTHER -> << >>

\* The executions chain c has completed.
Runs(c) == Len(SelectSeq(log[c], LAMBDA e : e.ev = "final"))

\* then, thenWithRetry, catchError, thenWithRetryDelayed and finally are
\* &&-qualified: they are called on the temporary a fluent expression builds
\* or, when the program has given the chain a name, on std::move(name).
\* Nothing in the chain records that finally has been called on it, and the
\* holders are pointers which std::move(steps_) leaves as they are; so a
\* named chain accepts the members again after an execution.  (The model
\* follows the reuse of chains shorter than the bound.)
Usable(c) ==
  \/ phase[c] = "building"
  \/ /\ harness = "named"
     /\ phase[c] = "done"
     /\ stack[c] = "unwound"
     /\ Runs(c) < MaxRuns
     /\ Len(steps_[c]) < MaxLen

\* Faulty variant: the new holder is put in front of the old ones.
Appended_front(c, holder) ==
  /\ Usable(c)
  /\ Len(steps_[c]) < MaxLen
  /\ MayAppend(c, holder)
  /\ steps_' = [k \in chains |-> Mirrored(c, k, holder) \o steps_[k]]
  /\ UNCHANGED << harness, results, step_objects, chains, global_scheduler, tasks, phase, Index, awaiting,
                  attempt, stack, this_valid, log >>

\* The AsyncChain(old_steps, new_step) constructor: tuple_cat of the old
\* tuple and the new holder.
Appended(c, holder) ==
  /\ Usable(c)
  /\ Len(steps_[c]) < MaxLen
  /\ MayAppend(c, holder)
  /\ steps_' = [k \in chains |-> steps_[k] \o Mirrored(c, k, holder)]
  /\ UNCHANGED << harness, results, step_objects, chains, global_scheduler, tasks, phase, Index, awaiting,
                  attempt, stack, this_valid, log >>

then(c, step) == Appended(c, Holder(step))

thenWithRetry(c, max, step) == Appended(c, RetryHolder(max, step))

catchError(c, catcher) == Appended(c, CatcherHolder(catcher))

thenWithRetryDelayed(c, max, delay, step) ==
  Appended(c, RetryDelayedHolder(max, delay, step))

setScheduler(scheduler) ==
  /\ global_scheduler # scheduler
  /\ global_scheduler' = scheduler
  /\ UNCHANGED << harness, results, step_objects, chains, tasks, steps_, phase, Index, awaiting, attempt,
                  stack, this_valid, log >>

Finished(c) == phase[c] \in {"done", "crashed", "threw"}

\* The twin program runs the chain with the immediate retries first, and the
\* other one when that call of finally has completed and returned.  The
\* nested program runs chain 2, then chain 1, and chain 3 from the nesting
\* step of chain 1.
MayRun(c) ==
  CASE harness \in {"twin", "tags"} ->
         \A k \in chains : k > c => phase[k] = "done" /\ stack[k] = "unwound"
    [] harness = "nested" /\ c = 2 -> HasNest(steps_[1])
    [] harness = "nested" /\ c = 1 -> phase[2] = "done" /\ stack[2] = "unwound"
    [] harness = "nested" /\ c = 3 ->
         /\ phase[1] = "running" /\ awaiting[1]
         /\ IsNest(steps_[1][Index[1] + 1])
    [] OTHER -> TRUE

\* Faulty variant: the execution is seeded with an error.
finally_seeded_error(c) ==
  /\ Usable(c)
  /\ MayRun(c)
  /\ Set(c, call_steps(steps_[c], 0, Err(DefaultT), log[c]))
  /\ stack' = [stack EXCEPT ![c] = "finally"]
  /\ UNCHANGED << harness, results, step_objects, chains, global_scheduler, tasks, steps_ >>

\* finally seeds the execution with Result<T, E>::Ok(T{}).
finally(c) ==
  /\ Usable(c)
  /\ MayRun(c)
  /\ Set(c, call_steps(steps_[c], 0, Ok(DefaultT), log[c]))
  /\ stack' = [stack EXCEPT ![c] = "finally"]
  /\ UNCHANGED << harness, results, step_objects, chains, global_scheduler, tasks, steps_ >>

\* -------------------------------------------------------------- execution
\* What the step invoked by chain c may pass to its continuation.  In the
\* twin program the steps behave in the later run as they did in the earlier.
Emitted(k, i, a) ==
  {e.res[1] : e \in {log[k][n] : n \in
      {n \in 1 .. Len(log[k]) : /\ log[k][n].ev = "emit"
                                /\ log[k][n].idx = i
                                /\ log[k][n].attempt = a}}}

\* The index in chain 2 of the holder at index i of chain c.
FlatIndex(c, i) ==
  IF harness = "nested" /\ HasNest(steps_[1])
  THEN CASE c = 3 -> NestPos(steps_[1]) + i
         [] c = 1 /\ i > NestPos(steps_[1]) -> i - 1 + Len(steps_[3])
         [] OTHER -> i
  ELSE i

\* The nesting step passes on what the final callback of chain 3 received.
NestEmits ==
  IF phase[3] = "done"
  THEN {e.res[1] : e \in {log[3][n] : n \in
          {n \in 1 .. Len(log[3]) : log[3][n].ev = "final"}}}
  ELSE {}

\* An Outcome with the tag of result and another payload.
Retagged(result) ==
  IF is_ok(result) THEN Ok(result.value[1] + 1) ELSE Err(result.error[1] + 1)

Emits(c) ==
  IF Index[c] < Len(steps_[c]) /\ IsNest(steps_[c][Index[c] + 1])
  THEN NestEmits
  ELSE IF /\ harness \in {"twin", "nested"} /\ c # 2
          /\ Emitted(2, FlatIndex(c, Index[c]), attempt[c]) # {}
       THEN Emitted(2, FlatIndex(c, Index[c]), attempt[c])
       ELSE IF /\ harness = "tags" /\ c # 2
               /\ Emitted(2, Index[c], attempt[c]) # {}
            THEN {Retagged(r) : r \in Emitted(2, Index[c], attempt[c])}
            ELSE StepOutcomes(FlatIndex(c, Index[c]), attempt[c])

Awaited(c, kind) ==
  /\ phase[c] = "running"
  /\ awaiting[c]
  /\ steps_[c][Index[c] + 1].kind = kind

\* Faulty variant: the Holder passes on a fresh success, not what its step
\* emitted.
Holder_continuation_fresh(c, r) ==
  /\ Awaited(c, "Holder")
  /\ Set(c, continue_chain(steps_[c], Index[c], Ok(DefaultT),
                           Append(log[c], EmitEv(Index[c], attempt[c], r))))
  /\ Resume(c)
  /\ UNCHANGED << harness, results, step_objects, chains, global_scheduler, tasks, steps_ >>

\* The step of a Holder calls its continuation: continue_chain(next_result).
Holder_continuation(c, r) ==
  /\ Awaited(c, "Holder")
  /\ Set(c, continue_chain(steps_[c], Index[c], r,
                           Append(log[c], EmitEv(Index[c], attempt[c], r))))
  /\ Resume(c)
  /\ UNCHANGED << harness, results, step_objects, chains, global_scheduler, tasks, steps_ >>

\* The step of a CatcherHolder calls its continuation.
CatcherHolder_continuation(c, r) ==
  /\ Awaited(c, "CatcherHolder")
  /\ Set(c, continue_chain(steps_[c], Index[c], r,
                           Append(log[c], EmitEv(Index[c], attempt[c], r))))
  /\ Resume(c)
  /\ UNCHANGED << harness, results, step_objects, chains, global_scheduler, tasks, steps_ >>

\* The step of a RetryHolder calls the continuation run_step gave it.
RetryHolder_continuation(c, r, intact) ==
  /\ Awaited(c, "RetryHolder")
  /\ LET holder == steps_[c][Index[c] + 1]
         lg == Append(log[c], EmitEv(Index[c], attempt[c], r))
     IN IF RetryHolder_decide(r, attempt[c], holder.MaxRetries) = "continue"
        THEN Set(c, continue_chain(steps_[c], Index[c], r, lg))
        ELSE Set(c, run_step(c, attempt[c] + 1, lg, intact))
  /\ Resume(c)
  /\ UNCHANGED << harness, results, step_objects, chains, global_scheduler, tasks, steps_ >>

\* The step of a RetryDelayedHolder calls the continuation run_step gave it.
\* A registered scheduler is caller code: handed an action it either runs it
\* before it returns (inline) or keeps it for later.
RetryDelayedHolder_continuation(c, r, intact, inline) ==
  /\ Awaited(c, "RetryDelayedHolder")
  /\ LET holder == steps_[c][Index[c] + 1]
         lg == Append(log[c], EmitEv(Index[c], attempt[c], r))
         sched == Append(lg, SchedEv(Index[c], attempt[c],
                                     scheduler_delay(holder)))
     IN IF RetryDelayedHolder_decide(r, attempt[c], holder.MaxRetries) = "continue"
        THEN /\ Set(c, continue_chain(steps_[c], Index[c], r, lg))
             /\ UNCHANGED tasks
        ELSE CASE global_scheduler = "empty" ->
                    \* calling an empty std::function throws
                    /\ Set(c, [Local(c) EXCEPT !.awaiting = FALSE,
                                               !.phase = "threw", !.log = lg])
                    /\ UNCHANGED tasks
               [] global_scheduler = "registered" /\ inline ->
                    /\ Set(c, run_step(c, attempt[c] + 1, sched, intact))
                    /\ UNCHANGED tasks
               [] global_scheduler = "registered" /\ ~inline ->
                    /\ Set(c, [Local(c) EXCEPT !.awaiting = FALSE, !.log = sched])
                    /\ tasks' = tasks \cup {[chain |-> c, attempt |-> attempt[c] + 1]}
  /\ Resume(c)
  /\ UNCHANGED << harness, results, step_objects, chains, global_scheduler, steps_ >>

\* Faulty variant: the scheduler runs an action and keeps it.
task_kept(t, intact) ==
  /\ t \in tasks
  /\ stack[t.chain] = "unwound"
  /\ tasks' = tasks
  /\ Set(t.chain, run_step(t.chain, t.attempt, log[t.chain], intact))
  /\ Resume(t.chain)
  /\ UNCHANGED << harness, results, step_objects, chains, global_scheduler, steps_ >>

\* The scheduler runs an action it kept, after the call that handed it over
\* has returned: run_step(continue_chain, attempt + 1) through the captured
\* this.
task(t, intact) ==
  /\ t \in tasks
  /\ stack[t.chain] = "unwound"
  /\ tasks' = tasks \ {t}
  /\ Set(t.chain, run_step(t.chain, t.attempt, log[t.chain], intact))
  /\ Resume(t.chain)
  /\ UNCHANGED << harness, results, step_objects, chains, global_scheduler, steps_ >>

\* Faulty variant: an engine with a fallback, which hands the final callback
\* an error when a step returns without having called its continuation.
Unwind_fallback(c) ==
  /\ stack[c] \in {"finally", "resumed"}
  /\ stack' = [stack EXCEPT ![c] = "unwound"]
  /\ IF awaiting[c]
     THEN Set(c, [Local(c) EXCEPT !.awaiting = FALSE, !.phase = "done",
                    !.this_valid = FALSE,
                    !.log = Append(log[c], FinalEv(Index[c], Err(DefaultT)))])
     ELSE /\ this_valid' = [this_valid EXCEPT ![c] = FALSE]
          /\ UNCHANGED << phase, Index, awaiting, attempt, log >>
  /\ UNCHANGED << harness, results, step_objects, chains, global_scheduler, tasks, steps_ >>

\* The calls on the stack return: a step returned without calling its
\* continuation, a deferring scheduler returned, or the final callback did.
\* What lived on that stack (the chain temporary, the closures of the
\* continuations that were running) is destroyed.
Unwind(c) ==
  /\ stack[c] \in {"finally", "resumed"}
  /\ stack' = [stack EXCEPT ![c] = "unwound"]
  /\ this_valid' = [this_valid EXCEPT ![c] = FALSE]
  /\ UNCHANGED << harness, results, step_objects, chains, global_scheduler, tasks, steps_, phase, Index,
                  awaiting, attempt, log >>

\* ------------------------------------------------------------------- spec
InitChain(h, objs, cs) ==
  /\ harness = h
  /\ results = {}
  /\ step_objects = objs
  /\ chains = cs
  /\ global_scheduler = "empty"
  /\ tasks = {}
  /\ steps_ = [c \in cs |-> << >>]
  /\ phase = [c \in cs |-> "building"]
  /\ Index = [c \in cs |-> 0]
  /\ awaiting = [c \in cs |-> FALSE]
  /\ attempt = [c \in cs |-> NoAttempt]
  /\ stack = [c \in cs |-> "none"]
  /\ this_valid = [c \in cs |-> TRUE]
  /\ log = [c \in cs |-> << >>]

Init == InitChain("single", {"s1"}, {1})

Next ==
  \/ \E c \in chains, s \in step_objects : then(c, s)
  \/ \E c \in chains, m \in RetryBounds, s \in step_objects : thenWithRetry(c, m, s)
  \/ \E c \in chains, s \in step_objects : catchError(c, s)
  \/ \E c \in chains, m \in RetryBounds, d \in Delays, s \in step_objects :
        thenWithRetryDelayed(c, m, d, s)
  \/ \E f \in {"empty", "registered"} : setScheduler(f)
  \/ \E c \in chains : finally(c)
  \/ \E c \in chains : \E r \in Emits(c) : Holder_continuation(c, r)
  \/ \E c \in chains : \E r \in Emits(c) : CatcherHolder_continuation(c, r)
  \/ \E c \in chains : \E r \in Emits(c), intact \in BOOLEAN :
        RetryHolder_continuation(c, r, intact)
  \/ \E c \in chains : \E r \in Emits(c), intact \in BOOLEAN, inline \in BOOLEAN :
        RetryDelayedHolder_continuation(c, r, intact, inline)
  \/ \E t \in tasks, intact \in BOOLEAN : task(t, intact)
  \/ \E c \in chains : Unwind(c)

Spec == Init /\ [][Next]_vars

\* Two chains over the same steps, chain 2 with immediate retries in place
\* of chain 1's delayed ones.
InitTwin == InitChain("twin", {"s1"}, {1, 2})

SpecTwin == InitTwin /\ [][Next]_vars

\* The pair program: two chains over steps that share no state, each built
\* and run on its own, with the retries of both deferred to the one
\* scheduler.
InitPair == InitChain("pair", {"s1"}, {1, 2})

NextPair ==
  \/ \E c \in chains, s \in step_objects : then(c, s)
  \/ \E c \in chains, m \in RetryBounds, d \in Delays, s \in step_objects :
        thenWithRetryDelayed(c, m, d, s)
  \/ \E f \in {"empty", "registered"} : setScheduler(f)
  \/ \E c \in chains : finally(c)
  \/ \E c \in chains : \E r \in Emits(c) : Holder_continuation(c, r)
  \/ \E c \in chains : \E r \in Emits(c), intact \in BOOLEAN, inline \in BOOLEAN :
        RetryDelayedHolder_continuation(c, r, intact, inline)
  \/ \E t \in tasks, intact \in BOOLEAN : task(t, intact)
  \/ \E c \in chains : Unwind(c)

SpecPair == InitPair /\ [][NextPair]_vars

\* The tags program: the same chain built twice and run twice, chain 2
\* first; in the second run every invocation emits an Outcome with the tag
\* the same invocation emitted in the first run and another payload.
InitTags == InitChain("tags", {"s1"}, {1, 2})

SpecTags == InitTags /\ [][Next]_vars

\* The callers keep their side of the contract: a step that was invoked
\* calls its continuation, a call that has nothing more to do returns, and
\* the scheduler runs an action it kept.
StepsAnswer ==
  /\ WF_vars(\E c \in chains : \E r \in Emits(c) : Holder_continuation(c, r))
  /\ WF_vars(\E c \in chains : \E r \in Emits(c) : CatcherHolder_continuation(c, r))
  /\ WF_vars(\E c \in chains : \E r \in Emits(c), intact \in BOOLEAN :
               RetryHolder_continuation(c, r, intact))
  /\ WF_vars(\E c \in chains : \E r \in Emits(c), intact \in BOOLEAN,
                 inline \in BOOLEAN :
               RetryDelayedHolder_continuation(c, r, intact, inline))

SchedulerRuns ==
  /\ WF_vars(\E c \in chains : Unwind(c))
  /\ WF_vars(\E t \in tasks, intact \in BOOLEAN : task(t, intact))

SpecFair == Init /\ [][Next]_vars /\ StepsAnswer /\ SchedulerRuns

SpecPairFair == InitPair /\ [][NextPair]_vars /\ StepsAnswer /\ SchedulerRuns

\* An outer chain with a nesting step, its inner chain, and the chain with
\* the inner holders in line.
InitNested == InitChain("nested", {"s1", "nest"}, {1, 2, 3})

SpecNested == InitNested /\ [][Next]_vars

\* A program that gives its chain a name and uses it through std::move.
InitNamed == InitChain("named", {"s1"}, {1})

SpecNamed == InitNamed /\ [][Next]_vars

\* ---------------------------------------------------------------- Result
\* A program that only builds Result objects.
Built(result) ==
  /\ harness = "results"
  /\ Cardinality(results) < MaxResults
  /\ result \notin results
  /\ results' = results \cup {result}
  /\ UNCHANGED << harness, step_objects, chains, global_scheduler, tasks, steps_, phase, Index,
                  awaiting, attempt, stack, this_valid, log >>

Result_Ok(val) == Built(Ok(val))

Result_Err(err) == Built(Err(err))

Result_void_Ok == Built(Ok_void)

Result_void_Err(err) == Built(Err_void(err))

Result_aggregate(error, value) == Built(Result(error, value))

InitResult == InitChain("results", {}, {})

NextResult ==
  \/ \E val \in Values : Result_Ok(val)
  \/ \E err \in Values : Result_Err(err)
  \/ Result_void_Ok
  \/ \E err \in Values : Result_void_Err(err)
  \/ \E error \in Optionals, value \in Optionals : Result_aggregate(error, value)

SpecResult == InitResult /\ [][NextResult]_vars

\* ================================================================ reading
\* What the log of chain c says.
Started(c) == phase[c] # "building"

Size(c) == Len(steps_[c])

Indices(c) == 0 .. (Size(c) - 1)

Events(c, kind) == SelectSeq(log[c], LAMBDA e : e.ev = kind)

EventsAt(c, kind, i) == SelectSeq(log[c], LAMBDA e : e.ev = kind /\ e.idx = i)

\* The positions in the log of the events of one kind at holder i.
Places(c, kind, i) ==
  {n \in 1 .. Len(log[c]) : log[c][n].ev = kind /\ log[c][n].idx = i}

KindAt(c, i) == steps_[c][i + 1].kind

Forwarded(c, i) == EventsAt(c, "fwd", i) # << >>

\* The Outcome holder i passed to continue_chain.
Outgoing(c, i) == EventsAt(c, "fwd", i)[1].res[1]

\* Holder i has been called: finally called holder 0, holder i - 1 called
\* continue_chain.
Entered(c, i) == Started(c) /\ (i = 0 \/ Forwarded(c, i - 1))

\* The result holder i was called with.
Incoming(c, i) == IF i = 0 THEN Ok(DefaultT) ELSE Outgoing(c, i - 1)

\* Nothing of chain c is outstanding: every invoked step has called its
\* continuation and the scheduler has run every action it was handed.
Quiescent(c) ==
  /\ Started(c)
  /\ ~awaiting[c]
  /\ \A t \in tasks : t.chain # c

\* ================================================================= claims

\* C1: one call to finally invokes the final callback exactly once, never
\* zero times and never twice, whatever the chain and whatever its steps
\* emit, once every invoked step has called its continuation and a
\* registered scheduler has run every action handed to it.
C1_FinalExactlyOnce ==
  \A c \in chains :
    /\ Len(Events(c, "final")) <= 1
    /\ (Quiescent(c) /\ phase[c] # "threw") => Len(Events(c, "final")) = 1

\* C2: in a chain of N >= 1 Holders whose steps all succeed, the steps are
\* invoked once each in chain order, and when the last has called its
\* continuation the final callback has been invoked exactly once, with the
\* Outcome step N emitted.
AllDirect(c) == \A i \in Indices(c) : KindAt(c, i) = "Holder"

AllSucceeded(c) ==
  \A n \in 1 .. Len(log[c]) : log[c][n].ev = "emit" => is_ok(log[c][n].res[1])

C2_DirectChainSucceeds ==
  \A c \in chains :
    (Started(c) /\ Size(c) >= 1 /\ AllDirect(c) /\ AllSucceeded(c)) =>
      LET calls == Events(c, "call") IN
      /\ Len(calls) >= 1
      /\ \A n \in 1 .. Len(calls) : calls[n].idx = n - 1
      /\ ~awaiting[c] =>
           /\ Len(calls) = Size(c)
           /\ Events(c, "final")
                = << FinalEv(Size(c),
                             EventsAt(c, "emit", Size(c) - 1)[1].res[1]) >>

C2_Witness ==
  \E c \in chains :
    /\ Size(c) = 2 /\ AllDirect(c) /\ AllSucceeded(c)
    /\ phase[c] = "done"
    /\ Len(Events(c, "call")) = 2
    /\ stack[c] = "resumed"

\* The step of holder k was invoked and what the holder passed on is an
\* error that step emitted.
StepFailed(c, k) ==
  /\ Forwarded(c, k)
  /\ is_err(Outgoing(c, k))
  /\ \E n \in Places(c, "emit", k) : log[c][n].res[1] = Outgoing(c, k)

NoStepRunsAfter(c, k) ==
  \A j \in Indices(c) : j > k => EventsAt(c, "call", j) = << >>

FinalReceives(c, r) == Events(c, "final") = << FinalEv(Size(c), r) >>

\* C3 as stated: if step k fails and no CatcherHolder precedes holder k,
\* no step after k is invoked and the final callback receives step k's
\* error.
C3_AsStated ==
  \A c \in chains : \A k \in Indices(c) :
    (/\ Started(c)
     /\ StepFailed(c, k)
     /\ \A i \in Indices(c) : i < k => KindAt(c, i) # "CatcherHolder") =>
      /\ NoStepRunsAfter(c, k)
      /\ FinalReceives(c, Outgoing(c, k))

\* C3, amended: if step k fails and no CatcherHolder follows holder k, no
\* step after k is invoked and the final callback receives step k's error
\* unchanged.
C3_NoCatchFollows ==
  \A c \in chains : \A k \in Indices(c) :
    (/\ Started(c)
     /\ StepFailed(c, k)
     /\ \A j \in Indices(c) : j > k => KindAt(c, j) # "CatcherHolder") =>
      /\ NoStepRunsAfter(c, k)
      /\ FinalReceives(c, Outgoing(c, k))

C3_Witness ==
  \E c \in chains :
    /\ Size(c) = 2
    /\ KindAt(c, 0) = "Holder" /\ KindAt(c, 1) = "RetryHolder"
    /\ StepFailed(c, 0)
    /\ phase[c] = "done"

\* The first CatcherHolder after holder i, or the end of the chain.
NextCatch(c, i) ==
  LET later == {j \in Indices(c) : j > i /\ KindAt(c, j) = "CatcherHolder"}
  IN IF later = {} THEN Size(c)
     ELSE CHOOSE j \in later : \A m \in later : j <= m

\* C4: once a holder has passed on an error, the steps of the following
\* Holders, RetryHolders and RetryDelayedHolders are not invoked up to the
\* next CatcherHolder or the end of the chain, and that CatcherHolder's
\* step, or the final callback, receives the same error.
C4_ErrorShortCircuits ==
  \A c \in chains : \A i \in Indices(c) :
    (Started(c) /\ Forwarded(c, i) /\ is_err(Outgoing(c, i))) =>
      LET j == NextCatch(c, i) IN
      /\ \A m \in Indices(c) : (i < m /\ m < j) =>
            /\ EventsAt(c, "call", m) = << >>
            /\ Forwarded(c, m) /\ Outgoing(c, m) = Outgoing(c, i)
      /\ IF j < Size(c)
         THEN /\ EventsAt(c, "call", j) # << >>
              /\ EventsAt(c, "call", j)[1].res = << Outgoing(c, i) >>
         ELSE FinalReceives(c, Outgoing(c, i))

C4_Witness ==
  \E c \in chains :
    /\ Size(c) = 2
    /\ KindAt(c, 0) = "Holder" /\ KindAt(c, 1) = "RetryDelayedHolder"
    /\ Forwarded(c, 0) /\ is_err(Outgoing(c, 0))
    /\ Forwarded(c, 1)
    /\ phase[c] = "done"

\* C5: a RetryHolder<M> entered with a success invokes its step at least
\* once and at most M + 1 times, with the attempts 0, 1, 2, ... in order; no
\* attempt follows a success or attempt M, and the holder passes an Outcome
\* on only after a success or after attempt M.
RetryCounts(c, i, kind) ==
  (KindAt(c, i) = kind /\ Entered(c, i) /\ is_ok(Incoming(c, i))) =>
    LET calls == EventsAt(c, "call", i)
        emits == EventsAt(c, "emit", i)
        M == steps_[c][i + 1].MaxRetries
    IN /\ Len(calls) >= 1
       /\ Len(calls) <= M + 1
       /\ \A n \in 1 .. Len(calls) : calls[n].attempt = n - 1
       /\ Len(emits) <= Len(calls)
       /\ \A n \in 1 .. Len(emits) :
            /\ emits[n].attempt = n - 1
            /\ n < Len(calls) => is_err(emits[n].res[1])
       /\ Forwarded(c, i) =>
            /\ Len(emits) = Len(calls)
            /\ Outgoing(c, i) = emits[Len(emits)].res[1]
            /\ is_ok(Outgoing(c, i)) \/ Len(calls) = M + 1

C5_RetryAttempts ==
  \A c \in chains : \A i \in Indices(c) : RetryCounts(c, i, "RetryHolder")

C5_Witness ==
  \E c \in chains : \E i \in Indices(c) :
    /\ KindAt(c, i) = "RetryHolder"
    /\ steps_[c][i + 1].MaxRetries = MaxRetriesBound
    /\ Len(EventsAt(c, "call", i)) = MaxRetriesBound + 1
    /\ Forwarded(c, i) /\ is_err(Outgoing(c, i))

\* C6: a CatcherHolder invokes its step if and only if the result it is
\* called with is an error; called with a success it does not invoke the
\* step and passes the same Outcome on.
C6_CatchIffError ==
  \A c \in chains : \A i \in Indices(c) :
    (KindAt(c, i) = "CatcherHolder" /\ Entered(c, i)) =>
      /\ EventsAt(c, "call", i) # << >> <=> is_err(Incoming(c, i))
      /\ is_ok(Incoming(c, i)) =>
           /\ EventsAt(c, "call", i) = << >>
           /\ Forwarded(c, i) /\ Outgoing(c, i) = Incoming(c, i)

C6_Witness ==
  \E c \in chains :
    /\ Size(c) = 2
    /\ KindAt(c, 0) = "CatcherHolder" /\ KindAt(c, 1) = "CatcherHolder"
    /\ Forwarded(c, 0) /\ is_ok(Outgoing(c, 0))
    /\ Entered(c, 1)

C6_WitnessError ==
  \E c \in chains :
    /\ Size(c) = 2
    /\ KindAt(c, 1) = "CatcherHolder"
    /\ Entered(c, 1) /\ is_err(Incoming(c, 1))
    /\ EventsAt(c, "call", 1) # << >>

\* C7: the step of a CatcherHolder is invoked with the failing Outcome, and
\* the Outcome it emits is what the holder passes on: a success makes a
\* following Holder invoke its step with that recovered Outcome, an error
\* is passed on in place of the old one (and short-circuits as in C4).
C7_CatchRecovers ==
  \A c \in chains : \A i \in Indices(c) :
    (KindAt(c, i) = "CatcherHolder" /\ EventsAt(c, "call", i) # << >>) =>
      LET calls == EventsAt(c, "call", i)
          emits == EventsAt(c, "emit", i)
      IN /\ Len(calls) = 1
         /\ is_err(Incoming(c, i))
         /\ calls[1].res = << Incoming(c, i) >>
         /\ Len(emits) <= 1
         /\ Forwarded(c, i) <=> emits # << >>
         /\ emits # << >> =>
              /\ Outgoing(c, i) = emits[1].res[1]
              /\ (is_ok(emits[1].res[1]) /\ i + 1 < Size(c)
                     /\ KindAt(c, i + 1) = "Holder") =>
                   EventsAt(c, "call", i + 1)
                     = << CallEv(i + 1, NoAttempt, << emits[1].res[1] >>) >>
              /\ (is_err(emits[1].res[1]) /\ i + 1 < Size(c)
                     /\ KindAt(c, i + 1) # "CatcherHolder") =>
                   /\ EventsAt(c, "call", i + 1) = << >>
                   /\ Outgoing(c, i + 1) = emits[1].res[1]
              /\ (is_err(emits[1].res[1]) /\ i + 1 = Size(c)) =>
                   FinalReceives(c, emits[1].res[1])

\* A chain as long as the bound allows whose last but one holder is a
\* CatcherHolder that recovered, followed by a Holder that ran.
C7_Witness ==
  \E c \in chains : \E i \in Indices(c) :
    /\ KindAt(c, i) = "CatcherHolder"
    /\ i + 1 < Size(c) /\ KindAt(c, i + 1) = "Holder"
    /\ Forwarded(c, i) /\ is_ok(Outgoing(c, i))
    /\ EventsAt(c, "call", i) # << >>
    /\ EventsAt(c, "call", i + 1) # << >>

\* C8: a chain with thenWithRetryDelayed<M, D> and the chain with
\* thenWithRetry<M> in its place, run over steps that behave the same, invoke
\* the same steps in the same order with the same attempts and inputs and
\* hand the final callback the same Outcome.  This holds whenever both runs
\* complete, so in particular under a scheduler that runs every action
\* before it returns.
C8_DelayedEqualsImmediate ==
  (harness = "twin" /\ phase[1] = "done" /\ phase[2] = "done") =>
    /\ Events(1, "call") = Events(2, "call")
    /\ Events(1, "final") = Events(2, "final")

\* Both runs are complete, the delayed one retried through the scheduler and
\* ran from start to end inside the call of finally: the scheduler ran
\* every action before it returned.
C8_Witness ==
  /\ harness = "twin"
  /\ phase[1] = "done" /\ phase[2] = "done"
  /\ stack[1] = "finally"
  /\ \E i \in Indices(1) :
       /\ KindAt(1, i) = "RetryDelayedHolder" /\ KindAt(2, i) = "RetryHolder"
       /\ Len(EventsAt(1, "sched", i)) = MaxRetriesBound
       /\ Len(EventsAt(2, "call", i)) = MaxRetriesBound + 1

\* C9: a pass through a RetryDelayedHolder<M, D> that makes a attempts
\* calls the scheduler a - 1 times: after each failed attempt but the last,
\* not before attempt 0 and not when the Outcome is passed on; every call
\* passes the delay D.
C9_SchedulerPerRetry ==
  \A c \in chains : \A i \in Indices(c) :
    (KindAt(c, i) = "RetryDelayedHolder" /\ Entered(c, i)) =>
      LET calls == EventsAt(c, "call", i)
          scheds == EventsAt(c, "sched", i)
          first == Places(c, "call", i)
      IN /\ \A n \in 1 .. Len(scheds) :
              /\ scheds[n].delay = steps_[c][i + 1].DelayMs
              /\ scheds[n].attempt = n - 1
         /\ Len(scheds) <= Len(calls)
         /\ \A p \in Places(c, "sched", i) :
              /\ \E q \in first : q < p
              /\ log[c][p - 1] = EmitEv(i, log[c][p].attempt,
                                        Err(Payload(i, log[c][p].attempt)))
         /\ Forwarded(c, i) =>
              /\ Len(scheds) = Len(calls) - 1 \/ calls = << >>
              /\ \A p \in Places(c, "sched", i) :
                   \A q \in Places(c, "fwd", i) : p < q - 1

C9_Witness ==
  \E c \in chains : \E i \in Indices(c) :
    /\ KindAt(c, i) = "RetryDelayedHolder"
    /\ Forwarded(c, i)
    /\ Len(EventsAt(c, "call", i)) = MaxRetriesBound + 1
    /\ Len(EventsAt(c, "sched", i)) = MaxRetriesBound
    /\ stack[c] = "resumed"

\* C10: no step of holder j is invoked before every holder i < j has passed
\* its Outcome on, no step of holder i is invoked after holder i has passed
\* its Outcome on (so every attempt of a retrying holder, a deferred one
\* included, comes before any later holder's step), and the final callback
\* runs only when every holder has passed its Outcome on.
C10_ChainOrder ==
  \A c \in chains :
    /\ \A p \in 1 .. Len(log[c]) :
         log[c][p].ev \in {"call", "final"} =>
           \A i \in Indices(c) : i < log[c][p].idx =>
             \E q \in Places(c, "fwd", i) : q < p
    /\ \A i \in Indices(c) :
         \A q \in Places(c, "fwd", i) :
           \A p \in Places(c, "call", i) \cup Places(c, "sched", i) : p < q

\* A deferred attempt of holder 0 ran, and then the step of holder 1.
C10_Witness ==
  \E c \in chains :
    /\ Size(c) >= 2
    /\ KindAt(c, 0) = "RetryDelayedHolder"
    /\ Len(EventsAt(c, "call", 0)) >= 2
    /\ stack[c] = "resumed"
    /\ EventsAt(c, "call", 1) # << >>

RetryKinds == {"RetryHolder", "RetryDelayedHolder"}

\* The step of retrying holder i has failed on every attempt 0 .. M.
Exhausted(c, i) ==
  LET emits == EventsAt(c, "emit", i)
      M == steps_[c][i + 1].MaxRetries
  IN /\ KindAt(c, i) \in RetryKinds
     /\ Len(emits) = M + 1
     /\ \A n \in 1 .. Len(emits) : is_err(emits[n].res[1])

\* C11: when the step of a RetryHolder<M> or RetryDelayedHolder<M, D> has
\* failed on all M + 1 attempts, the holder passes on the error of attempt M,
\* and what follows treats it as any error: the steps of the following
\* Holders, RetryHolders and RetryDelayedHolders are not invoked, and the
\* next CatcherHolder's step, or the final callback, receives that error.
C11_ExhaustedRetryPropagates ==
  \A c \in chains : \A i \in Indices(c) :
    Exhausted(c, i) =>
      LET M == steps_[c][i + 1].MaxRetries
          last == EventsAt(c, "emit", i)[M + 1]
          j == NextCatch(c, i)
      IN /\ last.attempt = M
         /\ Forwarded(c, i)
         /\ Outgoing(c, i) = last.res[1]
         /\ \A m \in Indices(c) : (i < m /\ m < j) =>
               /\ EventsAt(c, "call", m) = << >>
               /\ EventsAt(c, "sched", m) = << >>
               /\ Forwarded(c, m) /\ Outgoing(c, m) = last.res[1]
         /\ IF j < Size(c)
            THEN EventsAt(c, "call", j)
                   = << CallEv(j, NoAttempt, << last.res[1] >>) >>
            ELSE FinalReceives(c, last.res[1])

C11_Witness ==
  \E c \in chains :
    /\ Size(c) = 3
    /\ KindAt(c, 0) = "RetryDelayedHolder"
    /\ steps_[c][1].MaxRetries = MaxRetriesBound
    /\ Exhausted(c, 0)
    /\ KindAt(c, 1) = "Holder" /\ KindAt(c, 2) = "CatcherHolder"
    /\ EventsAt(c, "call", 2) # << >>

\* C12: a RetryHolder or RetryDelayedHolder called with an error does not
\* invoke its step, does not call the scheduler, and passes the same error
\* on.
C12_RetrySkipsOnError ==
  \A c \in chains : \A i \in Indices(c) :
    (KindAt(c, i) \in RetryKinds /\ Entered(c, i) /\ is_err(Incoming(c, i))) =>
      /\ EventsAt(c, "call", i) = << >>
      /\ EventsAt(c, "emit", i) = << >>
      /\ EventsAt(c, "sched", i) = << >>
      /\ Forwarded(c, i)
      /\ Outgoing(c, i) = Incoming(c, i)

C12_Witness ==
  \E c \in chains :
    /\ Size(c) = 3
    /\ KindAt(c, 0) = "Holder"
    /\ KindAt(c, 1) = "RetryHolder" /\ steps_[c][2].MaxRetries = MaxRetriesBound
    /\ KindAt(c, 2) = "RetryDelayedHolder"
    /\ Forwarded(c, 0) /\ is_err(Outgoing(c, 0))
    /\ Forwarded(c, 2) /\ Outgoing(c, 2) = Outgoing(c, 0)
    /\ global_scheduler = "empty"

\* C16: when every step has called its continuation before returning and
\* the scheduler has run every action before returning, the final callback
\* has been invoked when finally returns.  The call of finally is still on
\* the stack (stack = "finally") exactly as long as nothing has returned
\* without completing; with nothing outstanding it is about to return.
C16_DoneWhenFinallyReturns ==
  \A c \in chains :
    (/\ stack[c] = "finally"
     /\ ~awaiting[c]
     /\ \A t \in tasks : t.chain # c
     /\ phase[c] # "threw") =>
      /\ phase[c] = "done"
      /\ Len(Events(c, "final")) = 1

C16_Witness ==
  \E c \in chains :
    /\ stack[c] = "finally"
    /\ phase[c] = "done"
    /\ Size(c) = 3
    /\ \E i \in Indices(c) :
         /\ KindAt(c, i) = "RetryDelayedHolder"
         /\ Len(EventsAt(c, "sched", i)) = MaxRetriesBound
    /\ \E i \in Indices(c) :
         /\ KindAt(c, i) = "RetryHolder"
         /\ Len(EventsAt(c, "call", i)) >= 2

\* C17: when the step of a RetryDelayedHolder fails with retries left and
\* no scheduler is registered, the execution ends there with an exception:
\* nothing is passed on to a later holder, no later step is invoked and the
\* final callback is not invoked.  And an execution ends that way only
\* there.
C17_NoSchedulerThrows ==
  \A c \in chains :
    /\ \A i \in Indices(c) : \A n \in Places(c, "emit", i) :
         (/\ KindAt(c, i) = "RetryDelayedHolder"
          /\ is_err(log[c][n].res[1])
          /\ log[c][n].attempt < steps_[c][i + 1].MaxRetries) =>
           \/ /\ n < Len(log[c])
              /\ log[c][n + 1] = SchedEv(i, log[c][n].attempt,
                                         steps_[c][i + 1].DelayMs)
           \/ /\ n = Len(log[c])
              /\ phase[c] = "threw"
    /\ phase[c] = "threw" =>
         LET i == Index[c]
             last == log[c][Len(log[c])]
         IN /\ KindAt(c, i) = "RetryDelayedHolder"
            /\ last.ev = "emit" /\ last.idx = i
            /\ is_err(last.res[1])
            /\ last.attempt < steps_[c][i + 1].MaxRetries
            /\ ~Forwarded(c, i)
            /\ NoStepRunsAfter(c, i)
            /\ Events(c, "final") = << >>
            /\ ~awaiting[c]
            /\ \A t \in tasks : t.chain # c

\* The exception came on the second attempt of the first of three holders,
\* after one retry through a scheduler that was then taken away.
C17_Witness ==
  \E c \in chains :
    /\ phase[c] = "threw"
    /\ Size(c) = 3
    /\ Index[c] = 0
    /\ Len(EventsAt(c, "sched", 0)) = 1
    /\ Len(EventsAt(c, "call", 0)) = 2

\* The invocations in the log have the form the holder at their index
\* gives them, and come in the order of the holders.
ExecutesAsAppended(c) ==
  /\ \A n \in 1 .. Len(log[c]) :
       LET e == log[c][n] IN
       /\ e.ev \in {"call", "emit", "fwd", "sched"} => e.idx \in Indices(c)
       /\ e.ev = "call" =>
            /\ (e.attempt = NoAttempt) <=> (KindAt(c, e.idx) \notin RetryKinds)
            /\ (e.res = << >>) <=> (KindAt(c, e.idx) \in RetryKinds)
            /\ e.attempt <= steps_[c][e.idx + 1].MaxRetries
       /\ e.ev = "sched" =>
            /\ KindAt(c, e.idx) = "RetryDelayedHolder"
            /\ e.delay = steps_[c][e.idx + 1].DelayMs
       /\ e.ev = "final" => e.idx = Size(c)
       /\ n > 1 => log[c][n - 1].idx <= e.idx
  /\ phase[c] = "done" => Places(c, "fwd", Size(c) - 1) # {} \/ Size(c) = 0

\* C19: an append gives the chain exactly one more holder, at the end, and
\* leaves the holders before it as they were; once finally has been called
\* the holders never change, and what finally executes is the holders in
\* the order of the appends.
C19_AppendOnly ==
  /\ [](\A c \in chains : ExecutesAsAppended(c))
  /\ [][\A c \in chains :
         \/ steps_'[c] = steps_[c]
         \/ /\ phase[c] = "building" /\ phase'[c] = "building"
            /\ Len(steps_'[c]) = Len(steps_[c]) + 1
            /\ SubSeq(steps_'[c], 1, Len(steps_[c])) = steps_[c]]_vars

C19_Witness ==
  \E c \in chains :
    /\ Size(c) = MaxLen
    /\ KindAt(c, 0) = "Holder"
    /\ KindAt(c, 1) = "CatcherHolder"
    /\ KindAt(c, 2) = "RetryHolder"
    /\ phase[c] = "done"
    /\ EventsAt(c, "call", 1) # << >>
    /\ EventsAt(c, "call", 2) # << >>

\* C20: a Holder called with a success invokes its step exactly once, with
\* that incoming Outcome, and passes on exactly the Outcome the step emits.
C20_DirectStepOnce ==
  \A c \in chains : \A i \in Indices(c) :
    (KindAt(c, i) = "Holder" /\ Entered(c, i) /\ is_ok(Incoming(c, i))) =>
      LET emits == EventsAt(c, "emit", i) IN
      /\ EventsAt(c, "call", i) = << CallEv(i, NoAttempt, << Incoming(c, i) >>) >>
      /\ EventsAt(c, "sched", i) = << >>
      /\ Len(emits) <= 1
      /\ Forwarded(c, i) <=> emits # << >>
      /\ Forwarded(c, i) =>
           /\ Len(EventsAt(c, "fwd", i)) = 1
           /\ Outgoing(c, i) = emits[1].res[1]

C20_Witness ==
  \E c \in chains :
    /\ Size(c) = 2
    /\ KindAt(c, 0) = "Holder" /\ KindAt(c, 1) = "Holder"
    /\ Forwarded(c, 0) /\ is_ok(Outgoing(c, 0))
    /\ Forwarded(c, 1) /\ is_err(Outgoing(c, 1))
    /\ stack[c] = "resumed"

\* C15: when every invoked step calls its continuation and the scheduler
\* runs every action handed to it, an execution started by finally ends
\* with the final callback invoked, whatever the steps emit.  (With no
\* scheduler registered no action is ever handed over; that end is left
\* out here.)
C15_EventuallyFinal ==
  (phase[1] # "building") ~>
     (Len(Events(1, "final")) = 1 \/ phase[1] = "threw")

\* C13: of every Result exactly one of is_ok() and is_err() holds.
C13_ExactlyOne ==
  \A r \in results :
    IF "value" \in DOMAIN r
    THEN is_ok(r) # is_err(r)
    ELSE is_ok_void(r) # is_err_void(r)

\* C18: once finally has been called on a chain, that chain is not appended
\* to and is not executed again: the final callback is the last thing that
\* happens, once, and the chain keeps the length it was executed with.
C18_ConsumedOnce ==
  \A c \in chains :
    /\ Len(Events(c, "final")) <= 1
    /\ \A n \in 1 .. Len(log[c]) :
         log[c][n].ev = "final" => n = Len(log[c]) /\ log[c][n].idx = Size(c)

\* The step invocations of chain c, each as (index of the holder in chain
\* 2, attempt), without the invocation of the nesting step itself.
Invocations(c) ==
  LET calls == SelectSeq(log[c], LAMBDA e :
                 e.ev = "call" /\ ~IsNest(steps_[c][e.idx + 1]))
  IN [n \in 1 .. Len(calls) |-> << FlatIndex(c, calls[n].idx), calls[n].attempt >>]

\* The invocations of the nested program in the order they happen: chain 3
\* runs while the nesting step of chain 1 is awaited.
NestedInvocations ==
  LET p == NestPos(steps_[1])
  IN SelectSeq(Invocations(1), LAMBDA x : x[1] < p)
       \o (IF phase[3] = "building" THEN << >> ELSE Invocations(3))
       \o SelectSeq(Invocations(1), LAMBDA x : x[1] >= p)

NestedDone == harness = "nested" /\ phase[1] = "done" /\ phase[2] = "done"

SameAsInline ==
  /\ NestedInvocations = Invocations(2)
  /\ Events(1, "final")[1].res = Events(2, "final")[1].res

NestEntered == EventsAt(1, "call", NestPos(steps_[1])) # << >>

NoCatch(steps) == \A n \in 1 .. Len(steps) : steps[n].kind # "CatcherHolder"

SomeStepRuns(steps) == \E n \in 1 .. Len(steps) : steps[n].kind # "CatcherHolder"

Pending(c) == {t \in tasks : t.chain = c}

\* C21: when the scheduler runs an action it kept, after the call of finally
\* and the failing step invocation have returned, the holder the action
\* refers to is still valid: the step is invoked again, with attempt + 1,
\* and the execution goes on.
C21_DeferredRetryValid ==
  [][\A c \in chains : \A t \in Pending(c) :
       (t \notin tasks') =>
         /\ phase'[c] = "running"
         /\ awaiting'[c]
         /\ log'[c] = Append(log[c], CallEv(Index[c], t.attempt, << >>))]_vars

\* What the step of chain c appended to the log.
Appendix(c) == SubSeq(log'[c], Len(log[c]) + 1, Len(log'[c]))

\* C22: a RetryHolder invokes its step for attempt n + 1 inside the
\* continuation call that delivered the failure of attempt n, before that
\* call returns, and hands nothing to the scheduler: the failure and the
\* next invocation are one step of the execution, on one stack.
C22_RetryInsideContinuation ==
  [][\A c \in chains :
       (/\ phase[c] = "running" /\ awaiting[c]
        /\ KindAt(c, Index[c]) = "RetryHolder"
        /\ log'[c] # log[c]) =>
         LET new == Appendix(c)
             M == steps_[c][Index[c] + 1].MaxRetries
         IN /\ new[1].ev = "emit" /\ new[1].idx = Index[c]
            /\ new[1].attempt = attempt[c]
            /\ tasks' = tasks
            /\ \A n \in 1 .. Len(new) : new[n].ev # "sched"
            /\ stack'[c] # "unwound"
            /\ (is_err(new[1].res[1]) /\ attempt[c] < M) =>
                 /\ new = << new[1], CallEv(Index[c], attempt[c] + 1, << >>) >>
                 /\ awaiting'[c] /\ phase'[c] = "running"
            /\ (is_ok(new[1].res[1]) \/ attempt[c] >= M) =>
                 /\ Len(new) >= 2
                 /\ new[2] = FwdEv(Index[c], new[1].res[1])]_vars

\* The scheduler was called at place n of the log of chain c, or is being
\* called (and throws, being empty) where the execution of c ended.
SchedulerCalled(c, i) ==
  \/ EventsAt(c, "sched", i) # << >>
  \/ phase[c] = "threw" /\ Index[c] = i

\* C23: only a RetryDelayedHolder calls the scheduler, and only right after
\* an attempt with index < MaxRetries has emitted an error; Holder,
\* CatcherHolder and RetryHolder never call it and never leave an action
\* with it.  A RetryDelayedHolder that is called with an error, whose step
\* succeeds on attempt 0, or whose MaxRetries is 0, never calls it and passes
\* its Outcome on, whether or not a scheduler is registered.
C23_SchedulerOnlyOnDelayedRetry ==
  \A c \in chains :
    /\ \A n \in 1 .. Len(log[c]) :
         log[c][n].ev = "sched" =>
           /\ KindAt(c, log[c][n].idx) = "RetryDelayedHolder"
           /\ log[c][n].attempt < steps_[c][log[c][n].idx + 1].MaxRetries
           /\ n > 1
           /\ log[c][n - 1].ev = "emit"
           /\ log[c][n - 1].idx = log[c][n].idx
           /\ log[c][n - 1].attempt = log[c][n].attempt
           /\ is_err(log[c][n - 1].res[1])
    /\ phase[c] = "threw" =>
         LET last == log[c][Len(log[c])]
         IN /\ KindAt(c, Index[c]) = "RetryDelayedHolder"
            /\ last.ev = "emit" /\ last.idx = Index[c]
            /\ is_err(last.res[1])
            /\ last.attempt < steps_[c][Index[c] + 1].MaxRetries
    /\ Pending(c) # {} => KindAt(c, Index[c]) = "RetryDelayedHolder"
    /\ \A i \in Indices(c) :
         /\ KindAt(c, i) # "RetryDelayedHolder" => ~SchedulerCalled(c, i)
         /\ (/\ KindAt(c, i) = "RetryDelayedHolder"
             /\ Entered(c, i)
             /\ \/ is_err(Incoming(c, i))
                \/ steps_[c][i + 1].MaxRetries = 0
                \/ /\ EventsAt(c, "emit", i) # << >>
                   /\ is_ok(EventsAt(c, "emit", i)[1].res[1])) =>
              /\ ~SchedulerCalled(c, i)
              /\ Len(EventsAt(c, "emit", i)) = Len(EventsAt(c, "call", i)) =>
                   Forwarded(c, i)

\* With no scheduler registered an execution has completed that went
\* through a RetryDelayedHolder whose step succeeded on attempt 0, one with
\* MaxRetries 0 whose step failed, and one called with that error.
C23_Witness ==
  \E c \in chains :
    /\ global_scheduler = "empty"
    /\ phase[c] = "done"
    /\ Size(c) = 3
    /\ \A i \in Indices(c) : KindAt(c, i) = "RetryDelayedHolder"
    /\ steps_[c][1].MaxRetries = MaxRetriesBound
    /\ is_ok(Outgoing(c, 0))
    /\ steps_[c][2].MaxRetries = 0
    /\ is_err(Outgoing(c, 1))
    /\ steps_[c][3].MaxRetries = MaxRetriesBound
    /\ EventsAt(c, "call", 2) = << >>
    /\ is_err(Outgoing(c, 2))

\* C24: every holder classifies an Outcome a step emitted the same way:
\* the continuation of a RetryHolder or RetryDelayedHolder stops retrying
\* on it as on a success (attempts being left) exactly when a following
\* Holder would run its step on it, and exactly when a following
\* CatcherHolder would skip its step.
C24_SameClassification ==
  \A r \in results :
    "value" \in DOMAIN r =>
      LET success == RetryHolder_decide(r, 0, MaxRetriesBound) = "continue"
      IN /\ success <=>
              (RetryDelayedHolder_decide(r, 0, MaxRetriesBound) = "continue")
         /\ success <=> (Holder_call(r) = "step")
         /\ success <=> (CatcherHolder_call(r) = "continue")

\* The step invocations, attempts and scheduler calls of chain c, in order.
ControlFlow(c) ==
  LET flow == SelectSeq(log[c], LAMBDA e : e.ev \in {"call", "sched"})
  IN [n \in 1 .. Len(flow) |->
        << flow[n].ev, flow[n].idx, flow[n].attempt, flow[n].delay >>]

\* The tags of the Outcomes passed on and handed to the final callback.
TagFlow(c) ==
  LET flow == SelectSeq(log[c], LAMBDA e : e.ev \in {"emit", "fwd", "final"})
  IN [n \in 1 .. Len(flow) |->
        << flow[n].ev, flow[n].idx, flow[n].attempt, is_ok(flow[n].res[1]) >>]

\* C25: two executions of the same chain in which every invocation emits
\* Outcomes of the same tag, with different payloads, make the same step
\* invocations with the same attempts and the same scheduler calls, in the
\* same order, and pass on Outcomes of the same tags.
C25_TagOnly ==
  (harness = "tags" /\ phase[1] = "done" /\ phase[2] = "done") =>
    /\ ControlFlow(1) = ControlFlow(2)
    /\ TagFlow(1) = TagFlow(2)

\* Both executions are complete, their payloads differ, and they went
\* through a step that ran on a success, a retry and a recovery.
C25_Witness ==
  /\ harness = "tags"
  /\ phase[1] = "done" /\ phase[2] = "done"
  /\ Size(1) = 3
  /\ KindAt(1, 0) = "RetryDelayedHolder"
  /\ Len(EventsAt(1, "sched", 0)) >= 1
  /\ is_ok(Outgoing(1, 0))
  /\ Outgoing(1, 0) # Outgoing(2, 0)
  /\ KindAt(1, 1) = "Holder"
  /\ is_err(Outgoing(1, 1))
  /\ Outgoing(1, 1) # Outgoing(2, 1)
  /\ KindAt(1, 2) = "CatcherHolder"
  /\ EventsAt(1, "call", 2) # << >>

\* What the execution of chain c has come to.
Execution(c) ==
  << phase[c], Index[c], awaiting[c], attempt[c], log[c], Pending(c) >>

\* The final callback of chain c has been invoked once, with the last
\* Outcome the steps of c emitted.
FinalOnce(c) ==
  IF Len(Events(c, "final")) = 1 /\ Events(c, "emit") # << >>
  THEN Events(c, "final")[1].res = Events(c, "emit")[Len(Events(c, "emit"))].res
  ELSE FALSE

\* C26: two executions over steps that share no state, both with an action
\* pending in the scheduler.  Whichever action the scheduler runs, the
\* execution it belongs to goes on as it would alone, invoking its step for
\* the next attempt, and the other execution is left as it was; no
\* execution invokes its final callback twice; and both come to invoke it,
\* once, with the last Outcome their own steps emitted (unless the program
\* takes the scheduler away under them).
C26_IndependentExecutions ==
  /\ [](harness = "pair" => \A c \in chains : Len(Events(c, "final")) <= 1)
  /\ (harness = "pair" /\ \A c \in chains : Pending(c) # {}) ~>
       (\A c \in chains : phase[c] = "threw" \/ FinalOnce(c))
  /\ [][(/\ harness = "pair"
          /\ \A c \in chains : Pending(c) # {}) =>
           \A t \in tasks :
             (t \notin tasks') =>
               /\ log'[t.chain] =
                    Append(log[t.chain], CallEv(Index[t.chain], t.attempt, << >>))
               /\ phase'[t.chain] = "running" /\ awaiting'[t.chain]
               /\ \A k \in chains \ {t.chain} : Execution(k)' = Execution(k)]_vars

\* The step invocations of chain c whose continuation has not been called.
Unanswered(c) == Len(Events(c, "call")) - Len(Events(c, "emit"))

\* C27: at every moment an execution has at most one outstanding item: one
\* step invocation whose continuation has not been called, or one action
\* waiting in the scheduler, never both and never two of either.
C27_OneOutstanding ==
  \A c \in chains :
    /\ Unanswered(c) \in {0, 1}
    /\ awaiting[c] <=> (Unanswered(c) = 1)
    /\ Cardinality(Pending(c)) <= 1
    /\ Unanswered(c) + Cardinality(Pending(c)) <= 1

\* An action waits in the scheduler for the second time: the execution has
\* had a step invocation outstanding, then an action, then the invocation
\* the scheduler made, and now an action again.
C27_Witness ==
  \E c \in chains :
    /\ Cardinality(Pending(c)) = 1
    /\ Unanswered(c) = 0
    /\ Len(Events(c, "sched")) = 2
    /\ Len(Events(c, "call")) = 2

\* C28: every entry into a RetryHolder or RetryDelayedHolder starts its
\* attempts at 0: the first invocation its step gets from it has attempt 0
\* and comes right when the holder is called (first in the execution, or
\* right after the holder before it passed its Outcome on), however many
\* attempts another holder of the execution has made, on the same step
\* object or another.
C28_AttemptsStartAtZero ==
  \A c \in chains : \A i \in Indices(c) :
    (KindAt(c, i) \in RetryKinds /\ Places(c, "call", i) # {}) =>
      LET first == CHOOSE p \in Places(c, "call", i) :
                     \A q \in Places(c, "call", i) : p <= q
      IN /\ log[c][first].attempt = 0
         /\ IF i = 0 THEN first = 1
            ELSE /\ first > 1
                 /\ log[c][first - 1].ev = "fwd"
                 /\ log[c][first - 1].idx = i - 1

\* Two retrying holders on the same step object, one deferring and one not:
\* the first used every attempt it had, and the second has been entered.
C28_Witness ==
  \E c \in chains :
    /\ Size(c) >= 2
    /\ KindAt(c, 0) \in RetryKinds /\ KindAt(c, 1) \in RetryKinds
    /\ KindAt(c, 0) # KindAt(c, 1)
    /\ steps_[c][1].ptr = steps_[c][2].ptr
    /\ Len(EventsAt(c, "call", 0)) = MaxRetriesBound + 1
    /\ EventsAt(c, "call", 0)[MaxRetriesBound + 1].attempt = MaxRetriesBound
    /\ EventsAt(c, "call", 1) # << >>
    /\ EventsAt(c, "call", 1)[1].attempt = 0

\* C29: the first holder of an execution is called with a synthetic
\* success: a Holder, RetryHolder or RetryDelayedHolder in first place
\* always has its step invoked (the Holder's with that success), a
\* CatcherHolder in first place never has and passes that success on, and
\* an empty chain hands that success to the final callback.
C29_SyntheticSuccess ==
  \A c \in chains :
    Started(c) =>
      CASE Size(c) = 0 -> log[c] = << FinalEv(0, Ok(DefaultT)) >>
        [] Size(c) > 0 /\ KindAt(c, 0) = "CatcherHolder" ->
             /\ EventsAt(c, "call", 0) = << >>
             /\ log[c][1] = FwdEv(0, Ok(DefaultT))
        [] Size(c) > 0 /\ KindAt(c, 0) = "Holder" ->
             log[c][1] = CallEv(0, NoAttempt, << Ok(DefaultT) >>)
        [] OTHER -> log[c][1] = CallEv(0, 0, << >>)

\* An execution whose first holder is a CatcherHolder has completed: the
\* handler was not invoked and the step after it ran on the synthetic
\* success.
C29_Witness ==
  \E c \in chains :
    /\ phase[c] = "done"
    /\ Size(c) >= 2
    /\ KindAt(c, 0) = "CatcherHolder"
    /\ EventsAt(c, "call", 0) = << >>
    /\ KindAt(c, 1) = "Holder"
    /\ EventsAt(c, "call", 1) = << CallEv(1, NoAttempt, << Ok(DefaultT) >>) >>

\* C30: as long as an invoked step has not called its continuation the
\* execution stays where it is: nothing but that continuation moves it, so
\* no later holder's step is invoked, no further attempt is made, no action
\* waits in the scheduler and the final callback is not invoked; if the
\* continuation is never called this lasts forever.
C30_SuspendedUntilAnswered ==
  /\ [](\A c \in chains :
          awaiting[c] =>
            /\ phase[c] = "running"
            /\ Pending(c) = {}
            /\ Events(c, "final") = << >>
            /\ log[c][Len(log[c])].ev = "call"
            /\ log[c][Len(log[c])].idx = Index[c]
            /\ \A n \in 1 .. Len(log[c]) : log[c][n].idx <= Index[c])
  /\ [][\A c \in chains :
          awaiting[c] =>
            \/ Execution(c)' = Execution(c)
            \/ /\ Len(log'[c]) > Len(log[c])
               /\ Appendix(c)[1].ev = "emit"
               /\ Appendix(c)[1].idx = Index[c]
               /\ Appendix(c)[1].attempt = attempt[c]]_vars

\* The step of a holder that is not the last returned without having called
\* its continuation; every call on the stack has returned and the execution
\* is suspended there.
C30_Witness ==
  \E c \in chains :
    /\ awaiting[c]
    /\ stack[c] = "unwound"
    /\ Index[c] >= 1
    /\ Index[c] + 1 < Size(c)
    /\ KindAt(c, Index[c]) = "Holder"

====
